---- MODULE Spec2Model ----
(***************************************************************************)
(* State-machine model of hagrid's irregular grid (src/src/grid.h): the    *)
(* voxel map lookup, the reference enumeration of both cell kinds, the     *)
(* packed cell codec and the range computation.                            *)
(*                                                                         *)
(* C arrays are 0-based; the sequences that model them are read through    *)
(* ReadEntry / ReadRef, which add the 1.                                   *)
(***************************************************************************)
EXTENDS Integers, Sequences, FiniteSets, TLC

VARIABLES entries,   \* Grid::entries, the voxel map
          cells,     \* Grid::cells, the min/max bounds of every leaf cell
          dims,      \* Grid::dims
          shift,     \* Grid::shift
          region,    \* per entry: origin and accumulated log_dim of the voxels it covers
          nsub,      \* number of subdivisions the builder made
          lk,        \* state of the traversal: the results of lookup_entry
          ref_ids,   \* Grid::ref_ids, the primitive references
          fe,        \* locals of the running foreach_ref call, and what it visited
          co,        \* a child addressing of lookup_entry: inputs and offset
          cd,        \* the packed codec: the cell given, the words stored, the cell loaded
          rg,        \* compute_range: the boxes given and the range returned
          th         \* per worker thread: the locals of its running call

gridVars == <<entries, cells, dims, shift, region, nsub>>
vars == <<entries, cells, dims, shift, region, nsub, lk, ref_ids, fe, co, cd, rg, th>>

\* Number of subdivisions the builder may make.
MaxSubdiv == 2

---------------------------------------------------------------------------
(* Integer helpers: the C operators on int, as arithmetic. *)

Pow2(n) == 2 ^ n

\* a >> n on a signed int (arithmetic shift). A negative n is undefined in C;
\* the model then leaves the operand as it is.
Shr(a, n) == IF n < 0 THEN a ELSE a \div Pow2(n)

\* a << n
Shl(a, n) == a * Pow2(n)

\* a & ((1 << n) - 1) on a two's complement int.
AndMask(a, n) == a % Pow2(n)

Vec(a, b, c) == [x |-> a, y |-> b, z |-> c]

---------------------------------------------------------------------------
(* Entry *)

LOG_DIM_BITS == 2
BEGIN_BITS == 32 - LOG_DIM_BITS

\* The bit-fields keep the low bits of what is assigned to them.
make_entry(log_dim, begin) ==
    [log_dim |-> log_dim % Pow2(LOG_DIM_BITS), begin |-> begin % Pow2(BEGIN_BITS)]

\* What a read outside the array yields in the model: a leaf that names no cell.
WildEntry == [log_dim |-> 0, begin |-> Pow2(BEGIN_BITS) - 1]

ReadEntry(es, i) == IF i >= 0 /\ i < Len(es) THEN es[i + 1] ELSE WildEntry

---------------------------------------------------------------------------
(* The builder (external to grid.h): top-level grid and subdivision. *)

\* (dims, shift) pairs the grids are built for; shift 3 admits log_dim 3.
Shapes == { [dims |-> Vec(1, 2, 2), shift |-> 1],
            [dims |-> Vec(2, 1, 1), shift |-> 2],
            [dims |-> Vec(1, 1, 1), shift |-> 3] }

\* Coordinates of the i-th entry of an nx * ny * nz block stored x-fastest.
Unflatten(i, nx, ny) == Vec(i % nx, (i \div nx) % ny, i \div (nx * ny))

VAdd(a, b) == Vec(a.x + b.x, a.y + b.y, a.z + b.z)
VScale(a, s) == Vec(a.x * s, a.y * s, a.z * s)

\* Inclusive bounds of the cube of side s at origin o.
Box(o, s) == [min |-> o, max |-> VAdd(o, Vec(s - 1, s - 1, s - 1))]

TopCount(dm) == dm.x * dm.y * dm.z

TopEntries(dm) == [i \in 1..TopCount(dm) |-> make_entry(0, i - 1)]
TopRegion(dm, sh) ==
    [i \in 1..TopCount(dm) |->
        [org |-> VScale(Unflatten(i - 1, dm.x, dm.y), Pow2(sh)), d |-> 0]]
TopCells(dm, sh) ==
    [i \in 1..TopCount(dm) |->
        Box(VScale(Unflatten(i - 1, dm.x, dm.y), Pow2(sh)), Pow2(sh))]

\* Entry i of the grid g = [entries, cells, region] may be subdivided by
\* log_dim l: it is a leaf that alone owns its cell, the children keep at least
\* one voxel, and entries are refined in index order (level-major storage).
CanSubdivide(g, sh, i, l) ==
    /\ i \in 0..(Len(g.entries) - 1)
    /\ g.entries[i + 1].log_dim = 0
    /\ g.region[i + 1].d + l <= sh
    /\ g.cells[g.entries[i + 1].begin + 1] =
          Box(g.region[i + 1].org, Pow2(sh - g.region[i + 1].d))
    /\ \A j \in (i + 1)..Len(g.entries) : g.entries[j].log_dim = 0

\* The grid after leaf entry i is subdivided into a block of 8^l children
\* appended to the voxel map. With merged = TRUE all children stay in the
\* parent's cell (a cell that spans several leaf entries); otherwise every
\* child gets a cell of its own.
Refined(g, sh, i, l, merged) ==
    LET base  == Len(g.entries)
        c     == g.entries[i + 1].begin
        nc    == Len(g.cells)
        side  == Pow2(l)
        n     == side * side * side
        dd    == g.region[i + 1].d + l
        csz   == Pow2(sh - dd)
        org(j) == VAdd(g.region[i + 1].org, VScale(Unflatten(j, side, side), csz))
        cellOf(j) == IF merged \/ j = 0 THEN c ELSE nc + j - 1
    IN [entries |-> [g.entries EXCEPT ![i + 1] = make_entry(l, base)]
                       \o [j \in 1..n |-> make_entry(0, cellOf(j - 1))],
        region  |-> g.region \o [j \in 1..n |-> [org |-> org(j - 1), d |-> dd]],
        cells   |-> IF merged THEN g.cells
                    ELSE [g.cells EXCEPT ![c + 1] = Box(org(0), csz)]
                           \o [j \in 1..(n - 1) |-> Box(org(j), csz)]]

TopGrid(dm, sh) ==
    [entries |-> TopEntries(dm), region |-> TopRegion(dm, sh), cells |-> TopCells(dm, sh)]

\* One refinement step of the builder; a merged subdivision ends the refinement.
Subdivide(i, l, merged) ==
    /\ lk.pc = "build"
    /\ nsub < MaxSubdiv
    /\ LET g == [entries |-> entries, region |-> region, cells |-> cells]
       IN /\ CanSubdivide(g, shift, i, l)
          /\ entries' = Refined(g, shift, i, l, merged).entries
          /\ region' = Refined(g, shift, i, l, merged).region
          /\ cells' = Refined(g, shift, i, l, merged).cells
    /\ nsub' = nsub + 1
    /\ lk' = [pc |-> IF merged THEN "merged" ELSE "build"]
    /\ UNCHANGED <<dims, shift, ref_ids, fe, co, cd, rg, th>>

---------------------------------------------------------------------------
(* lookup_entry *)

\* Index of the top-level entry of a voxel (line 104). The swapped variant
\* takes dims.y for the row length.
TopIndexSwapped(sh, dm, v) == Shr(v.x, sh) + dm.y * (Shr(v.y, sh) + dm.x * Shr(v.z, sh))

TopIndex(sh, dm, v) == Shr(v.x, sh) + dm.x * (Shr(v.y, sh) + dm.y * Shr(v.z, sh))

\* k = (voxel >> int(shift - d)) & mask
LocalCoord(v, sh, d, log_dim) ==
    Vec(AndMask(Shr(v.x, sh - d), log_dim),
        AndMask(Shr(v.y, sh - d), log_dim),
        AndMask(Shr(v.z, sh - d), log_dim))

\* k.x + ((k.y + (k.z << log_dim)) << log_dim) (line 111). The flat variant
\* shifts k.z once only.
ChildOffsetFlat(k, log_dim) == k.x + Shl(k.y, log_dim) + Shl(k.z, log_dim)

ChildOffset(k, log_dim) == k.x + Shl(k.y + Shl(k.z, log_dim), log_dim)

\* Iterations after which the model gives a descent up as not terminating.
MaxIter == 5

\* Lines 107-113, one iteration of the descent loop. r holds the locals entry,
\* log_dim and d, and what the run did so far: iters (iterations made), minsh
\* (the least shift amount shift - d used; shift before the first iteration)
\* and inblock (every child fetched lay at an offset in [0, 8^log_dim) and
\* inside the array). The stale variant leaves line 112 out: log_dim keeps
\* the value of the first entry.
DescendStepStale(es, sh, v, r) ==
    LET begin == r.entry.begin
        k     == LocalCoord(v, sh, r.d, r.log_dim)
        off   == ChildOffset(k, r.log_dim)
        e     == ReadEntry(es, begin + off)
    IN [entry   |-> e,
        log_dim |-> r.log_dim,
        d       |-> r.d + r.log_dim,
        iters   |-> r.iters + 1,
        minsh   |-> IF sh - r.d < r.minsh THEN sh - r.d ELSE r.minsh,
        inblock |-> r.inblock /\ off >= 0 /\ off < Pow2(3 * r.log_dim)
                      /\ begin + off < Len(es)]

DescendStep(es, sh, v, r) ==
    LET begin == r.entry.begin
        k     == LocalCoord(v, sh, r.d, r.log_dim)
        off   == ChildOffset(k, r.log_dim)
        e     == ReadEntry(es, begin + off)
    IN [entry   |-> e,
        log_dim |-> e.log_dim,
        d       |-> r.d + e.log_dim,
        iters   |-> r.iters + 1,
        minsh   |-> IF sh - r.d < r.minsh THEN sh - r.d ELSE r.minsh,
        inblock |-> r.inblock /\ off >= 0 /\ off < Pow2(3 * r.log_dim)
                      /\ begin + off < Len(es)]

\* Line 106, while (log_dim).
RECURSIVE Descend(_, _, _, _)
Descend(es, sh, v, r) ==
    IF r.log_dim = 0 \/ r.iters >= MaxIter THEN r
    ELSE Descend(es, sh, v, DescendStep(es, sh, v, r))

\* lookup_entry: the locals when the loop is left; entry.begin is returned.
lookup_entry(es, sh, dm, v) ==
    LET e == ReadEntry(es, TopIndex(sh, dm, v))
    IN Descend(es, sh, v,
           [entry |-> e, log_dim |-> e.log_dim, d |-> e.log_dim, iters |-> 0,
            minsh |-> sh, inblock |-> TRUE])

\* Voxels of the domain [0, dims << shift).
Domain == { Vec(a, b, c) : a \in 0..(Shl(dims.x, shift) - 1),
                           b \in 0..(Shl(dims.y, shift) - 1),
                           c \in 0..(Shl(dims.z, shift) - 1) }

Idle == [pc |-> "build"]

\* The traversal resolves every voxel of the domain against the grid, which
\* is frozen from then on.
LookupAll ==
    /\ lk.pc \in {"build", "merged"}
    /\ lk' = [pc |-> "done",
              res |-> [v \in Domain |-> lookup_entry(entries, shift, dims, v)]]
    /\ UNCHANGED <<gridVars, ref_ids, fe, co, cd, rg, th>>

---------------------------------------------------------------------------
(* foreach_ref *)

\* Longest ref_ids array of the model.
MaxRefs == 4

\* What a slot of ref_ids may hold: two primitive indices, the sentinel -1
\* and another negative value.
RefVals == {-2, -1, 0, 1}

RefArrays == UNION { [1..n -> RefVals] : n \in 0..MaxRefs }

\* ref_ids[i], as the set of values the read may yield: a read outside the
\* array may yield anything.
RefAt(refs, i) == IF i >= 0 /\ i < Len(refs) THEN {refs[i + 1]} ELSE RefVals

FeIdle == [pc |-> "idle"]

\* cur < cell.end ? ref_ids[cur++] : -1 (lines 120 and 123): the value
\* fetched, the new cur and the position read. The inclusive variant tests
\* cur <= cell.end.
CellFetchInclusive(refs, cur, end) ==
    IF cur <= end
    THEN { [ref |-> v, cur |-> cur + 1, read |-> {cur}] : v \in RefAt(refs, cur) }
    ELSE { [ref |-> -1, cur |-> cur, read |-> {}] }

CellFetch(refs, cur, end) ==
    IF cur < end
    THEN { [ref |-> v, cur |-> cur + 1, read |-> {cur}] : v \in RefAt(refs, cur) }
    ELSE { [ref |-> -1, cur |-> cur, read |-> {}] }

\* Line 127: return cell.end - cell.begin.
CellCount(begin, end) == end - begin

\* Line 120.
CellStart(b, e) ==
    /\ fe.pc = "idle"
    /\ \E r \in CellFetch(ref_ids, b, e) :
          fe' = [pc |-> "cell_loop", begin |-> b, end |-> e, cur |-> r.cur,
                 ref |-> r.ref, visited |-> <<>>, reads |-> r.read, ret |-> 0]
    /\ UNCHANGED <<gridVars, lk, ref_ids, co, cd, rg, th>>

\* Lines 121-126: preload the next reference, visit the current one.
CellLoop ==
    /\ fe.pc = "cell_loop"
    /\ fe.ref >= 0
    /\ \E r \in CellFetch(ref_ids, fe.cur, fe.end) :
          fe' = [fe EXCEPT !.cur = r.cur, !.ref = r.ref,
                           !.visited = Append(fe.visited, fe.ref),
                           !.reads = fe.reads \cup r.read]
    /\ UNCHANGED <<gridVars, lk, ref_ids, co, cd, rg, th>>

CellReturn ==
    /\ fe.pc = "cell_loop"
    /\ fe.ref < 0
    /\ fe' = [fe EXCEPT !.pc = "cell_done", !.ret = CellCount(fe.begin, fe.end)]
    /\ UNCHANGED <<gridVars, lk, ref_ids, co, cd, rg, th>>

\* ref_ids[cur++] (line 135, and line 133 when cur >= 0). The pre-increment
\* variant reads ref_ids[++cur].
SmallFetchPreIncrement(refs, cur) ==
    { [ref |-> v, cur |-> cur + 1, read |-> {cur + 1}] : v \in RefAt(refs, cur + 1) }

SmallFetch(refs, cur) ==
    { [ref |-> v, cur |-> cur + 1, read |-> {cur}] : v \in RefAt(refs, cur) }

\* Line 139: return cur - small_cell.begin.
SmallCount(cur, begin) == cur - begin

\* Lines 132-133.
SmallStart(b) ==
    /\ fe.pc = "idle"
    /\ \E r \in (IF b >= 0 THEN SmallFetch(ref_ids, b)
                 ELSE { [ref |-> -1, cur |-> b, read |-> {}] }) :
          fe' = [pc |-> "small_loop", begin |-> b, end |-> 0, cur |-> r.cur,
                 ref |-> r.ref, visited |-> <<>>, reads |-> r.read, ret |-> 0]
    /\ UNCHANGED <<gridVars, lk, ref_ids, co, cd, rg, th>>

\* Lines 134-138. The model follows a chain one slot past the array, no further.
SmallLoop ==
    /\ fe.pc = "small_loop"
    /\ fe.ref >= 0
    /\ fe.cur <= Len(ref_ids)
    /\ \E r \in SmallFetch(ref_ids, fe.cur) :
          fe' = [fe EXCEPT !.cur = r.cur, !.ref = r.ref,
                           !.visited = Append(fe.visited, fe.ref),
                           !.reads = fe.reads \cup r.read]
    /\ UNCHANGED <<gridVars, lk, ref_ids, co, cd, rg, th>>

SmallReturn ==
    /\ fe.pc = "small_loop"
    /\ fe.ref < 0
    /\ fe' = [fe EXCEPT !.pc = "small_done", !.ret = SmallCount(fe.cur, fe.begin)]
    /\ UNCHANGED <<gridVars, lk, ref_ids, co, cd, rg, th>>

---------------------------------------------------------------------------
(* Child addressing of lookup_entry, on any voxel coordinate *)

\* Coordinates a voxel is drawn from, negative ones and ones past any block.
VoxelSamples == {-9, -1, 0, 3, 6, 21}

\* Block base indices the addressing is tried at.
BeginSamples == {0, 8, 73}

\* Lines 108-111 for an internal entry (log_dim, begin) met with shift - d = n:
\* the local coordinate, the child offset and the index fetched.
Address ==
    /\ co.pc = "call"
    /\ LET k == LocalCoord(co.voxel, co.n + co.log_dim, co.log_dim, co.log_dim)
       IN co' = [pc |-> "done", log_dim |-> co.log_dim, begin |-> co.begin,
                 n |-> co.n, voxel |-> co.voxel, k |-> k,
                 off |-> ChildOffset(k, co.log_dim),
                 idx |-> co.begin + ChildOffset(k, co.log_dim)]
    /\ UNCHANGED <<gridVars, lk, ref_ids, fe, cd, rg, th>>

---------------------------------------------------------------------------
(* load_cell / store_cell *)

\* A uint (32 bits) is the pair of its 16-bit halves [lo, hi]: TLC's
\* integers end at 2^31 - 1.
LaneBits == 16
Lane == Pow2(LaneBits)

\* Conversion of an unsigned short to uint: zero extension. The sign-extending
\* variant is what a signed 16-bit component would give.
U32FromS16(a) == [lo |-> a % Lane, hi |-> IF a % Lane >= Lane \div 2 THEN Lane - 1 ELSE 0]

U32FromU16(a) == [lo |-> a % Lane, hi |-> 0]

\* (uint) of an int, and int of a uint: the value modulo 2^32.
U32FromInt(i) == [lo |-> i % Lane, hi |-> (i \div Lane) % Lane]
IntFromU32(w) == (IF w.hi >= Lane \div 2 THEN w.hi - Lane ELSE w.hi) * Lane + w.lo

\* Conversion of a uint to unsigned short keeps the low 16 bits.
U16FromU32(w) == w.lo

\* w << 16 and w >> 16 on a uint.
Shl16(w) == [lo |-> 0, hi |-> w.lo]
Shr16(w) == [lo |-> w.hi, hi |-> 0]

\* Bitwise or of two n-bit values.
RECURSIVE BitOr(_, _, _)
BitOr(a, b, n) ==
    IF n = 0 THEN 0
    ELSE (IF a % 2 = 1 \/ b % 2 = 1 THEN 1 ELSE 0) + 2 * BitOr(a \div 2, b \div 2, n - 1)

\* a | b on uint.
Or32(a, b) == [lo |-> BitOr(a.lo, b.lo, LaneBits), hi |-> BitOr(a.hi, b.hi, LaneBits)]

Word4(a, b, c, d) == [x |-> a, y |-> b, z |-> c, w |-> d]

MkCell(min, begin, max, end) == [min |-> min, begin |-> begin, max |-> max, end |-> end]
MkSmallCell(min, max, begin) == [min |-> min, max |-> max, begin |-> begin]

\* Lines 156-160: the two int4 words of a Cell.
store_cell(cell) ==
    <<Word4(cell.min.x, cell.min.y, cell.min.z, cell.begin),
      Word4(cell.max.x, cell.max.y, cell.max.z, cell.end)>>

\* Lines 143-149.
load_cell(ptr) ==
    MkCell(Vec(ptr[1].x, ptr[1].y, ptr[1].z), ptr[1].w,
           Vec(ptr[2].x, ptr[2].y, ptr[2].z), ptr[2].w)

\* Lines 170-176: the uint4 word of a SmallCell.
store_small_cell(cell) ==
    Word4(Or32(U32FromU16(cell.min.x), Shl16(U32FromU16(cell.min.y))),
          Or32(U32FromU16(cell.min.z), Shl16(U32FromU16(cell.max.x))),
          Or32(U32FromU16(cell.max.y), Shl16(U32FromU16(cell.max.z))),
          U32FromInt(cell.begin))

\* Lines 162-168.
load_small_cell(cell) ==
    MkSmallCell(Vec(U16FromU32(cell.x), U16FromU32(Shr16(cell.x)), U16FromU32(cell.y)),
                Vec(U16FromU32(Shr16(cell.y)), U16FromU32(cell.z), U16FromU32(Shr16(cell.z))),
                IntFromU32(cell.w))

\* Field values the cells given to the codec are made of.
Int32Samples == { -2147483647 - 1, -1, 0, 2147483647 }
CoordSamples == { -2147483647 - 1, 0, 2147483647 }
U16Samples == { 0, 1, 32768, 65535 }

CoordVecs == { Vec(a, b, c) : a \in CoordSamples, b \in CoordSamples, c \in CoordSamples }
U16Vecs == { Vec(a, b, c) : a \in U16Samples, b \in U16Samples, c \in U16Samples }

StoreCell ==
    /\ cd.pc = "cell_given"
    /\ cd' = [pc |-> "cell_stored", in |-> cd.in, mem |-> store_cell(cd.in)]
    /\ UNCHANGED <<gridVars, lk, ref_ids, fe, co, rg, th>>

LoadCell ==
    /\ cd.pc = "cell_stored"
    /\ cd' = [pc |-> "cell_loaded", in |-> cd.in, mem |-> cd.mem, out |-> load_cell(cd.mem)]
    /\ UNCHANGED <<gridVars, lk, ref_ids, fe, co, rg, th>>

StoreSmallCell ==
    /\ cd.pc = "small_given"
    /\ cd' = [pc |-> "small_stored", in |-> cd.in, mem |-> store_small_cell(cd.in)]
    /\ UNCHANGED <<gridVars, lk, ref_ids, fe, co, rg, th>>

LoadSmallCell ==
    /\ cd.pc = "small_stored"
    /\ cd' = [pc |-> "small_loaded", in |-> cd.in, mem |-> cd.mem,
              out |-> load_small_cell(cd.mem)]
    /\ UNCHANGED <<gridVars, lk, ref_ids, fe, co, rg, th>>

---------------------------------------------------------------------------
(* compute_range *)

(* Coordinates are floats in the code. The model holds them as integers, in  *)
(* quarters of a unit; the grid extents it tries are powers of two and dims  *)
(* are small, so that every float operation of compute_range is exact on the *)
(* values tried and the integer arithmetic below computes what the code does. *)

\* Largest dimension per axis.
MaxDim == 2

Max(a, b) == IF a >= b THEN a ELSE b
Min(a, b) == IF a <= b THEN a ELSE b

\* int(num / den) for den > 0: the conversion of a float to int drops the
\* fraction (rounds toward zero).
Trunc(num, den) == IF num >= 0 THEN num \div den ELSE -((-num) \div den)

\* int((obj - grid_min) * inv) with inv = dim / extent.
ScaledCoord(obj, grid_min, dim, extent) == Trunc((obj - grid_min) * dim, extent)

\* Lines 86-88: max(int(...), 0); the unclamped variant leaves the max out.
LowBoundUnclamped(obj_min, grid_min, dim, extent) ==
    ScaledCoord(obj_min, grid_min, dim, extent)

LowBound(obj_min, grid_min, dim, extent) ==
    Max(ScaledCoord(obj_min, grid_min, dim, extent), 0)

\* Lines 89-91: min(int(...), dims - 1).
HighBound(obj_max, grid_min, dim, extent) ==
    Min(ScaledCoord(obj_max, grid_min, dim, extent), dim - 1)

\* BBox::extents()
Extents(bb) == Vec(bb.max.x - bb.min.x, bb.max.y - bb.min.y, bb.max.z - bb.min.z)

MkRange(lx, ly, lz, hx, hy, hz) ==
    [lx |-> lx, ly |-> ly, lz |-> lz, hx |-> hx, hy |-> hy, hz |-> hz]

\* Lines 84-93.
compute_range(dm, grid_bb, obj_bb) ==
    LET ext == Extents(grid_bb)
    IN MkRange(LowBound(obj_bb.min.x, grid_bb.min.x, dm.x, ext.x),
               LowBound(obj_bb.min.y, grid_bb.min.y, dm.y, ext.y),
               LowBound(obj_bb.min.z, grid_bb.min.z, dm.z, ext.z),
               HighBound(obj_bb.max.x, grid_bb.min.x, dm.x, ext.x),
               HighBound(obj_bb.max.y, grid_bb.min.y, dm.y, ext.y),
               HighBound(obj_bb.max.z, grid_bb.min.z, dm.z, ext.z))

\* Grid boxes tried (quarters of a unit): extents 16 on every axis, and
\* extents 8, 16, 4 off the origin.
GridBoxes == { [min |-> Vec(0, 0, 0), max |-> Vec(16, 16, 16)],
               [min |-> Vec(-4, 4, 0), max |-> Vec(4, 20, 4)] }

\* Coordinates the query boxes are made of: far below, just below, inside,
\* on and above the grid boxes.
QuerySamples == {-20, -1, 5, 16, 23}

Intervals(los, his) == { iv \in [lo : los, hi : his] : iv.lo <= iv.hi }

QueryBoxes ==
    { [min |-> Vec(ix.lo, iy.lo, iz.lo), max |-> Vec(ix.hi, iy.hi, iz.hi)] :
        ix \in Intervals(QuerySamples, QuerySamples),
        iy \in Intervals(QuerySamples, QuerySamples),
        iz \in Intervals(QuerySamples, QuerySamples) }

ComputeRange ==
    /\ rg.pc = "call"
    /\ rg' = [pc |-> "done", dims |-> rg.dims, grid_bb |-> rg.grid_bb,
              obj_bb |-> rg.obj_bb,
              range |-> compute_range(rg.dims, rg.grid_bb, rg.obj_bb)]
    /\ UNCHANGED <<gridVars, lk, ref_ids, fe, co, cd, th>>

---------------------------------------------------------------------------
(* Worker threads calling lookup_entry and foreach_ref on one frozen grid *)

\* Number of worker threads.
NumThreads == 2

Threads == 1..NumThreads

\* The grid the threads share: 2 x 1 x 1 top-level entries at shift 2, entry 0
\* subdivided, and its first child subdivided again.
ParShape == [dims |-> Vec(2, 1, 1), shift |-> 2]
ParDims == ParShape.dims
ParShift == ParShape.shift
ParGrid ==
    Refined(Refined(TopGrid(ParDims, ParShift), ParShift, 0, 1, FALSE),
            ParShift, 2, 1, FALSE)

\* Voxels resolved after two, one and no iteration of the descent.
ParVoxels == { Vec(0, 0, 0), Vec(3, 2, 1), Vec(6, 3, 3) }

\* The references the threads share, and the cells enumerated: two chains,
\* each closed by the sentinel.
ParRefs == <<0, 1, -1, 1, -1>>
ParCells == { [begin |-> 0, end |-> 2], [begin |-> 3, end |-> 4] }
ParSmallCells == { 0, 3 }

\* What lookup_entry leaves in entries after reading entries[i], and
\* foreach_ref in ref_ids after reading ref_ids[i]: both take the array as a
\* pointer to const and hold no store, so the array is as it was. The consuming
\* variant marks the reference it read as taken.
EntriesAfterRead(es, i) == es

RefsAfterReadConsumed(refs, i) ==
    IF i >= 0 /\ i < Len(refs) THEN [refs EXCEPT ![i + 1] = -1] ELSE refs

RefsAfterRead(refs, i) == refs

ThIdle == [pc |-> "idle"]

\* lookup_entry, line 104-105.
ThLookupStart(t, v) ==
    /\ th[t].pc = "idle"
    /\ LET idx == TopIndex(shift, dims, v)
           e   == ReadEntry(entries, idx)
       IN /\ th' = [th EXCEPT ![t] =
                      [pc |-> "lookup", voxel |-> v,
                       r |-> [entry |-> e, log_dim |-> e.log_dim, d |-> e.log_dim,
                              iters |-> 0, minsh |-> shift, inblock |-> TRUE]]]
          /\ entries' = EntriesAfterRead(entries, idx)
    /\ UNCHANGED <<cells, dims, shift, region, nsub, lk, ref_ids, fe, co, cd, rg>>

\* Lines 106-114, one iteration.
ThLookupLoop(t) ==
    /\ th[t].pc = "lookup"
    /\ th[t].r.log_dim # 0
    /\ th' = [th EXCEPT ![t].r = DescendStep(entries, shift, th[t].voxel, th[t].r)]
    /\ entries' = EntriesAfterRead(entries,
                     th[t].r.entry.begin
                       + ChildOffset(LocalCoord(th[t].voxel, shift, th[t].r.d,
                                                th[t].r.log_dim), th[t].r.log_dim))
    /\ UNCHANGED <<cells, dims, shift, region, nsub, lk, ref_ids, fe, co, cd, rg>>

\* Line 115.
ThLookupReturn(t) ==
    /\ th[t].pc = "lookup"
    /\ th[t].r.log_dim = 0
    /\ th' = [th EXCEPT ![t].pc = "lookup_done"]
    /\ UNCHANGED <<gridVars, lk, ref_ids, fe, co, cd, rg>>

\* foreach_ref(Cell), line 120.
ThCellStart(t, c) ==
    /\ th[t].pc = "idle"
    /\ \E r \in CellFetch(ref_ids, c.begin, c.end) :
          /\ th' = [th EXCEPT ![t] =
                      [pc |-> "cell", begin |-> c.begin, end |-> c.end, cur |-> r.cur,
                       ref |-> r.ref, visited |-> <<>>, ret |-> 0]]
          /\ ref_ids' = IF r.read = {} THEN ref_ids ELSE RefsAfterRead(ref_ids, c.begin)
    /\ UNCHANGED <<gridVars, lk, fe, co, cd, rg>>

\* Lines 121-126.
ThCellLoop(t) ==
    /\ th[t].pc = "cell"
    /\ th[t].ref >= 0
    /\ \E r \in CellFetch(ref_ids, th[t].cur, th[t].end) :
          /\ th' = [th EXCEPT ![t].cur = r.cur, ![t].ref = r.ref,
                               ![t].visited = Append(th[t].visited, th[t].ref)]
          /\ ref_ids' = IF r.read = {} THEN ref_ids ELSE RefsAfterRead(ref_ids, th[t].cur)
    /\ UNCHANGED <<gridVars, lk, fe, co, cd, rg>>

\* Line 127.
ThCellReturn(t) ==
    /\ th[t].pc = "cell"
    /\ th[t].ref < 0
    /\ th' = [th EXCEPT ![t].pc = "cell_done",
                         ![t].ret = CellCount(th[t].begin, th[t].end)]
    /\ UNCHANGED <<gridVars, lk, ref_ids, fe, co, cd, rg>>

\* foreach_ref(SmallCell), lines 132-133.
ThSmallStart(t, b) ==
    /\ th[t].pc = "idle"
    /\ b >= 0
    /\ \E r \in SmallFetch(ref_ids, b) :
          th' = [th EXCEPT ![t] =
                   [pc |-> "small", begin |-> b, end |-> 0, cur |-> r.cur,
                    ref |-> r.ref, visited |-> <<>>, ret |-> 0]]
    /\ ref_ids' = RefsAfterRead(ref_ids, b)
    /\ UNCHANGED <<gridVars, lk, fe, co, cd, rg>>

\* Lines 134-138.
ThSmallLoop(t) ==
    /\ th[t].pc = "small"
    /\ th[t].ref >= 0
    /\ th[t].cur <= Len(ref_ids)
    /\ \E r \in SmallFetch(ref_ids, th[t].cur) :
          th' = [th EXCEPT ![t].cur = r.cur, ![t].ref = r.ref,
                            ![t].visited = Append(th[t].visited, th[t].ref)]
    /\ ref_ids' = RefsAfterRead(ref_ids, th[t].cur)
    /\ UNCHANGED <<gridVars, lk, fe, co, cd, rg>>

\* Line 139.
ThSmallReturn(t) ==
    /\ th[t].pc = "small"
    /\ th[t].ref < 0
    /\ th' = [th EXCEPT ![t].pc = "small_done",
                         ![t].ret = SmallCount(th[t].cur, th[t].begin)]
    /\ UNCHANGED <<gridVars, lk, ref_ids, fe, co, cd, rg>>

\* The caller takes the result; the thread is free for its next call.
ThNextCall(t) ==
    /\ th[t].pc \in {"lookup_done", "cell_done", "small_done"}
    /\ th' = [th EXCEPT ![t] = ThIdle]
    /\ UNCHANGED <<gridVars, lk, ref_ids, fe, co, cd, rg>>

---------------------------------------------------------------------------
(* Specifications *)

NoGrid ==
    /\ entries = <<>>
    /\ cells = <<>>
    /\ region = <<>>
    /\ dims = Vec(0, 0, 0)
    /\ shift = 0
    /\ nsub = 0
    /\ lk = Idle

NoRefs == ref_ids = <<>> /\ fe = FeIdle

NoPure == co = [pc |-> "idle"] /\ cd = [pc |-> "idle"] /\ rg = [pc |-> "idle"]

NoThreads == th = <<>>

\* The builder and the lookups.
Init ==
    /\ \E s \in Shapes :
          /\ dims = s.dims
          /\ shift = s.shift
          /\ entries = TopEntries(s.dims)
          /\ region = TopRegion(s.dims, s.shift)
          /\ cells = TopCells(s.dims, s.shift)
    /\ nsub = 0
    /\ lk = Idle
    /\ NoRefs /\ NoPure /\ NoThreads

Next ==
    \/ \E i \in 0..(Len(entries) - 1), l \in 1..3, m \in BOOLEAN : Subdivide(i, l, m)
    \/ LookupAll

Spec == Init /\ [][Next]_vars

\* The enumeration of one cell of either kind over any ref_ids array.
InitForeach ==
    /\ NoGrid
    /\ ref_ids \in RefArrays
    /\ fe = FeIdle
    /\ NoPure /\ NoThreads

NextForeach ==
    \/ \E b \in 0..Len(ref_ids), e \in 0..Len(ref_ids) : CellStart(b, e)
    \/ CellLoop
    \/ CellReturn
    \/ \E b \in -1..(Len(ref_ids) - 1) : SmallStart(b)
    \/ SmallLoop
    \/ SmallReturn

SpecForeach == InitForeach /\ [][NextForeach]_vars

\* The child addressing on any internal entry and voxel coordinate.
InitOffset ==
    /\ NoGrid /\ NoRefs /\ NoThreads
    /\ cd = [pc |-> "idle"] /\ rg = [pc |-> "idle"]
    /\ \E l \in 1..3, b \in BeginSamples, n \in 0..2,
          x \in VoxelSamples, y \in VoxelSamples, z \in VoxelSamples :
             co = [pc |-> "call", log_dim |-> l, begin |-> b, n |-> n,
                   voxel |-> Vec(x, y, z)]

NextOffset == Address

SpecOffset == InitOffset /\ [][NextOffset]_vars

\* A cell of either kind through store_cell, then load_cell.
InitCodec ==
    /\ NoGrid /\ NoRefs /\ NoThreads
    /\ co = [pc |-> "idle"] /\ rg = [pc |-> "idle"]
    /\ \/ \E mn \in CoordVecs, mx \in CoordVecs, b \in Int32Samples, e \in Int32Samples :
             cd = [pc |-> "cell_given", in |-> MkCell(mn, b, mx, e)]
       \/ \E mn \in U16Vecs, mx \in U16Vecs, b \in Int32Samples :
             cd = [pc |-> "small_given", in |-> MkSmallCell(mn, mx, b)]

NextCodec ==
    \/ StoreCell
    \/ LoadCell
    \/ StoreSmallCell
    \/ LoadSmallCell

SpecCodec == InitCodec /\ [][NextCodec]_vars

\* compute_range on any of the grid and query boxes.
InitRange ==
    /\ NoGrid /\ NoRefs /\ NoThreads
    /\ co = [pc |-> "idle"] /\ cd = [pc |-> "idle"]
    /\ \E dx \in 1..MaxDim, dy \in 1..MaxDim, dz \in 1..MaxDim,
          g \in GridBoxes, q \in QueryBoxes :
             rg = [pc |-> "call", dims |-> Vec(dx, dy, dz), grid_bb |-> g, obj_bb |-> q]

NextRange == ComputeRange

SpecRange == InitRange /\ [][NextRange]_vars

\* Worker threads, each making calls one after another, their steps interleaved.
InitPar ==
    /\ dims = ParDims
    /\ shift = ParShift
    /\ entries = ParGrid.entries
    /\ region = ParGrid.region
    /\ cells = ParGrid.cells
    /\ nsub = 2
    /\ lk = Idle
    /\ ref_ids = ParRefs
    /\ fe = FeIdle
    /\ NoPure
    /\ th = [t \in Threads |-> ThIdle]

NextPar ==
    \E t \in Threads :
        \/ \E v \in ParVoxels : ThLookupStart(t, v)
        \/ ThLookupLoop(t)
        \/ ThLookupReturn(t)
        \/ \E c \in ParCells : ThCellStart(t, c)
        \/ ThCellLoop(t)
        \/ ThCellReturn(t)
        \/ \E b \in ParSmallCells : ThSmallStart(t, b)
        \/ ThSmallLoop(t)
        \/ ThSmallReturn(t)
        \/ ThNextCall(t)

SpecPar == InitPar /\ [][NextPar]_vars

---------------------------------------------------------------------------
(* Well-formedness of the built grid, as the lookup claims assume it. *)

InBox(b, v) ==
    /\ b.min.x <= v.x /\ v.x <= b.max.x
    /\ b.min.y <= v.y /\ v.y <= b.max.y
    /\ b.min.z <= v.z /\ v.z <= b.max.z

BoxVoxels(b) == { Vec(a, e, c) : a \in b.min.x..b.max.x, e \in b.min.y..b.max.y,
                                 c \in b.min.z..b.max.z }

\* The leaf cells tile the domain; every internal entry points at a block of
\* 8^log_dim entries inside the voxel map.
WellFormed ==
    /\ Len(entries) >= TopCount(dims)
    /\ \A v \in Domain : Cardinality({c \in 1..Len(cells) : InBox(cells[c], v)}) = 1
    /\ \A i \in 1..Len(entries) :
          entries[i].log_dim # 0 =>
             /\ entries[i].log_dim \in 1..3
             /\ entries[i].begin + Pow2(3 * entries[i].log_dim) <= Len(entries)

\* C1: for every leaf cell c and every voxel v inside c's inclusive min/max
\* bounds, lookup_entry on v ends on a leaf and returns the index of c.
C1_LookupConsistency ==
    lk.pc = "done" =>
        \A c \in 1..Len(cells) : \A v \in BoxVoxels(cells[c]) :
            /\ lk.res[v].log_dim = 0
            /\ lk.res[v].entry.begin = c - 1

\* A two-level descent with different log_dim per level, on a grid that also
\* holds a cell spanning several leaf entries, resolved to the right cell.
C1_Witness ==
    /\ lk.pc = "done"
    /\ WellFormed
    /\ \E v \in Domain :
          /\ lk.res[v].iters = 2
          /\ lk.res[v].d = 3
          /\ InBox(cells[lk.res[v].entry.begin + 1], v)
    /\ \E c \in 1..Len(cells) :
          Cardinality({ i \in 1..Len(entries) :
                          entries[i].log_dim = 0 /\ entries[i].begin = c - 1 }) > 1

\* C9: on a grid whose log_dim sums along every path are at most shift, the
\* descent for every voxel of the domain ends on an entry with log_dim = 0
\* after at most shift iterations, and every shift amount shift - d it used
\* is >= 0.
C9_LookupTermination ==
    lk.pc = "done" =>
        \A v \in Domain :
            /\ lk.res[v].log_dim = 0
            /\ lk.res[v].iters <= shift
            /\ lk.res[v].minsh >= 0

\* A descent that used up the whole shift in two iterations of log_dim 1.
C9_Witness ==
    /\ lk.pc = "done"
    /\ shift = 2
    /\ \A i \in 1..Len(region) : region[i].d <= shift
    /\ \E v \in Domain :
          lk.res[v].iters = shift /\ lk.res[v].minsh = 0 /\ lk.res[v].log_dim = 0

---------------------------------------------------------------------------
(* foreach_ref claims *)

\* The slice ref_ids[b], ..., ref_ids[e - 1].
Slice(refs, b, e) == SubSeq(refs, b + 1, e)

IsPrefix(p, q) == Len(p) <= Len(q) /\ SubSeq(q, 1, Len(p)) = p

\* C2 as claimed: for every Cell with begin <= end and every content of
\* ref_ids, foreach_ref visits exactly ref_ids[begin..end-1] in order and
\* returns end - begin, the number of visits.
C2_CellCompleteAnyContent ==
    (fe.pc = "cell_done" /\ fe.begin <= fe.end) =>
        /\ fe.visited = Slice(ref_ids, fe.begin, fe.end)
        /\ fe.ret = fe.end - fe.begin
        /\ fe.ret = Len(fe.visited)

\* C2 amended: the same, for the arrays whose values at begin..end-1 are all
\* non-negative; while the call runs it has visited a prefix of the slice and
\* read nothing outside it.
C2_CellComplete ==
    (fe.pc \in {"cell_loop", "cell_done"} /\ fe.begin <= fe.end
       /\ \A p \in fe.begin..(fe.end - 1) : ref_ids[p + 1] >= 0) =>
        /\ IsPrefix(fe.visited, Slice(ref_ids, fe.begin, fe.end))
        /\ fe.reads \subseteq fe.begin..(fe.end - 1)
        /\ fe.pc = "cell_done" =>
              /\ fe.visited = Slice(ref_ids, fe.begin, fe.end)
              /\ fe.ret = fe.end - fe.begin
              /\ fe.ret = Len(fe.visited)

\* The whole of a four-reference array was enumerated, both values occurring.
C2_Witness ==
    /\ fe.pc = "cell_done"
    /\ fe.begin = 0 /\ fe.end = 4
    /\ fe.visited = ref_ids
    /\ fe.visited[1] # fe.visited[2]
    /\ fe.ret = 4

\* C3 as claimed: when ref_ids holds a -1 at or after begin, the value
\* foreach_ref(SmallCell) returns is the number of references it visited.
C3_SmallCountIsVisited ==
    (fe.pc = "small_done"
       /\ \E s \in 0..(Len(ref_ids) - 1) : s >= fe.begin /\ ref_ids[s + 1] = -1) =>
        fe.ret = Len(fe.visited)

\* First position at or after b that holds the sentinel, the values before it
\* being non-negative; -1 if there is none.
SentinelPos(refs, b) ==
    LET S == { s \in 0..(Len(refs) - 1) :
                 /\ s >= b
                 /\ refs[s + 1] = -1
                 /\ \A p \in b..(s - 1) : refs[p + 1] >= 0 }
    IN IF S = {} THEN -1 ELSE CHOOSE s \in S : TRUE

\* C4: for a SmallCell with begin >= 0 whose chain holds non-negative values
\* at begin..s-1 and -1 at s, foreach_ref visits exactly ref_ids[begin..s-1]
\* in increasing position order, never the sentinel, reads no position
\* greater than s, and stops there.
C4_SmallChainTermination ==
    (fe.pc \in {"small_loop", "small_done"} /\ fe.begin >= 0
       /\ SentinelPos(ref_ids, fe.begin) >= 0) =>
        LET s == SentinelPos(ref_ids, fe.begin)
        IN /\ IsPrefix(fe.visited, Slice(ref_ids, fe.begin, s))
           /\ fe.reads \subseteq fe.begin..s
           /\ fe.cur <= s + 1
           /\ (fe.pc = "small_loop" /\ fe.ref < 0) =>
                 fe.visited = Slice(ref_ids, fe.begin, s)
           /\ fe.pc = "small_done" =>
                 /\ fe.visited = Slice(ref_ids, fe.begin, s)
                 /\ fe.reads = fe.begin..s

\* A chain of two references followed by the sentinel and a further slot.
C4_Witness ==
    /\ fe.pc = "small_done"
    /\ fe.begin = 0
    /\ SentinelPos(ref_ids, 0) = 2
    /\ Len(ref_ids) = 4
    /\ fe.visited = <<ref_ids[1], ref_ids[2]>>
    /\ fe.reads = {0, 1, 2}

---------------------------------------------------------------------------
(* Child addressing claim *)

Cube(l) == { Vec(a, b, c) : a \in 0..(Pow2(l) - 1), b \in 0..(Pow2(l) - 1),
                            c \in 0..(Pow2(l) - 1) }

\* C10: for an internal entry with log_dim l in 1..3 and any voxel coordinate,
\* the masked local coordinates lie in [0, 2^l), the child offset lies in
\* [0, 8^l), the entry fetched lies in the block [begin, begin + 8^l), and
\* distinct local coordinates of the cube map to distinct offsets.
C10_ChildInsideBlock ==
    co.pc = "done" =>
        /\ co.k \in Cube(co.log_dim)
        /\ co.off >= 0 /\ co.off < Pow2(3 * co.log_dim)
        /\ co.idx >= co.begin /\ co.idx < co.begin + Pow2(3 * co.log_dim)
        /\ Cardinality({ ChildOffset(k, co.log_dim) : k \in Cube(co.log_dim) })
              = Pow2(3 * co.log_dim)

\* The last child of a block of 512, addressed from negative coordinates.
C10_Witness ==
    /\ co.pc = "done"
    /\ co.log_dim = 3
    /\ co.voxel = Vec(-1, -1, -1)
    /\ co.k = Vec(7, 7, 7)
    /\ co.off = 511
    /\ co.begin = 73

---------------------------------------------------------------------------
(* Codec claim *)

\* C5: store_cell then load_cell gives back every field of a Cell and of a
\* SmallCell; the word stored for a SmallCell holds min.x, min.y, min.z,
\* max.x, max.y, max.z in the 16-bit lanes (x.lo, x.hi, y.lo, y.hi, z.lo, z.hi)
\* and begin in w, no component reaching into the neighbouring lane.
C5_CodecRoundTrip ==
    /\ cd.pc = "cell_loaded" => cd.out = cd.in
    /\ cd.pc = "small_loaded" => cd.out = cd.in
    /\ cd.pc \in {"small_stored", "small_loaded"} =>
          /\ cd.mem.x = [lo |-> cd.in.min.x, hi |-> cd.in.min.y]
          /\ cd.mem.y = [lo |-> cd.in.min.z, hi |-> cd.in.max.x]
          /\ cd.mem.z = [lo |-> cd.in.max.y, hi |-> cd.in.max.z]
          /\ IntFromU32(cd.mem.w) = cd.in.begin

\* A SmallCell with a coordinate that has its top bit set beside an empty
\* lane, and a negative begin, came back from the packed word.
C5_Witness ==
    /\ cd.pc = "small_loaded"
    /\ cd.in.min.x = 32768 /\ cd.in.min.y = 0
    /\ cd.in.max.y = 65535 /\ cd.in.max.z = 1
    /\ cd.in.begin = -1
    /\ cd.out = cd.in

---------------------------------------------------------------------------
(* compute_range claims *)

\* The scaled coordinate (obj - grid_min) * dim / extent is below n, at least
\* n: comparisons of the exact value, before it is converted to int.
ScaledBelow(obj, grid_min, dim, extent, n) == (obj - grid_min) * dim < n * extent
ScaledAtLeast(obj, grid_min, dim, extent, n) == (obj - grid_min) * dim >= n * extent

\* C6 as claimed: for every query box all six values lie in [0, dims - 1].
C6_RangeWithinDims ==
    rg.pc = "done" =>
        /\ 0 <= rg.range.lx /\ rg.range.lx <= rg.dims.x - 1
        /\ 0 <= rg.range.hx /\ rg.range.hx <= rg.dims.x - 1
        /\ 0 <= rg.range.ly /\ rg.range.ly <= rg.dims.y - 1
        /\ 0 <= rg.range.hy /\ rg.range.hy <= rg.dims.y - 1
        /\ 0 <= rg.range.lz /\ rg.range.lz <= rg.dims.z - 1
        /\ 0 <= rg.range.hz /\ rg.range.hz <= rg.dims.z - 1

\* One axis of the amended C6.
AxisClamped(lo, hi, obj_min, obj_max, grid_min, dim, extent) ==
    /\ lo >= 0
    /\ hi <= dim - 1
    /\ (ScaledAtLeast(obj_min, grid_min, dim, extent, 0)
          /\ ScaledBelow(obj_max, grid_min, dim, extent, dim)) =>
             (lo <= dim - 1 /\ hi >= 0)

\* C6 amended: for every query box the low bounds are >= 0 and the high bounds
\* are <= dims - 1; on an axis where the scaled query interval lies in
\* [0, dims), both bounds lie in [0, dims - 1].
C6_RangeClamped ==
    rg.pc = "done" =>
        LET e == Extents(rg.grid_bb)
        IN /\ AxisClamped(rg.range.lx, rg.range.hx, rg.obj_bb.min.x, rg.obj_bb.max.x,
                          rg.grid_bb.min.x, rg.dims.x, e.x)
           /\ AxisClamped(rg.range.ly, rg.range.hy, rg.obj_bb.min.y, rg.obj_bb.max.y,
                          rg.grid_bb.min.y, rg.dims.y, e.y)
           /\ AxisClamped(rg.range.lz, rg.range.hz, rg.obj_bb.min.z, rg.obj_bb.max.z,
                          rg.grid_bb.min.z, rg.dims.z, e.z)

\* A query box that starts below the grid box on x and ends inside it, and
\* lies inside it on y and z: the low x bound was clamped to 0.
C6_Witness ==
    /\ rg.pc = "done"
    /\ rg.dims = Vec(2, 2, 2)
    /\ rg.grid_bb.min = Vec(0, 0, 0)
    /\ rg.obj_bb.min = Vec(-20, 5, 5)
    /\ rg.obj_bb.max = Vec(5, 5, 5)
    /\ rg.range = MkRange(0, 0, 0, 0, 0, 0)

Disjoint(q, g) ==
    \/ q.max.x < g.min.x \/ q.min.x > g.max.x
    \/ q.max.y < g.min.y \/ q.min.y > g.max.y
    \/ q.max.z < g.min.z \/ q.min.z > g.max.z

Inverted(r) == r.hx < r.lx \/ r.hy < r.ly \/ r.hz < r.lz

\* C7 as claimed: a query box that does not overlap the grid box gets an
\* inverted range, hi < lo on some axis.
C7_DisjointIsInverted ==
    (rg.pc = "done" /\ Disjoint(rg.obj_bb, rg.grid_bb)) => Inverted(rg.range)

---------------------------------------------------------------------------
(* Parallel read-only claim *)

\* The references a call of foreach_ref(Cell) visits when it runs alone.
RECURSIVE CellAlone(_, _, _)
CellAlone(refs, cur, end) ==
    IF cur >= end \/ refs[cur + 1] < 0 THEN <<>>
    ELSE <<refs[cur + 1]>> \o CellAlone(refs, cur + 1, end)

\* The references a call of foreach_ref(SmallCell) visits when it runs alone,
\* on a chain closed inside the array.
RECURSIVE SmallAlone(_, _)
SmallAlone(refs, cur) ==
    IF cur >= Len(refs) \/ refs[cur + 1] < 0 THEN <<>>
    ELSE <<refs[cur + 1]>> \o SmallAlone(refs, cur + 1)

\* C8: under every interleaving of the threads' calls the shared arrays are
\* never written, and every finished call holds the result and the visit
\* sequence of the same call run alone on the frozen grid (for a SmallCell
\* the value returned is cur - begin with cur one past the sentinel).
C8_ParallelReadOnly ==
    /\ entries = ParGrid.entries
    /\ cells = ParGrid.cells
    /\ ref_ids = ParRefs
    /\ \A t \in Threads :
          /\ th[t].pc = "lookup_done" =>
                th[t].r = lookup_entry(ParGrid.entries, ParShift, ParDims, th[t].voxel)
          /\ th[t].pc = "cell_done" =>
                /\ th[t].visited = CellAlone(ParRefs, th[t].begin, th[t].end)
                /\ th[t].ret = th[t].end - th[t].begin
          /\ th[t].pc = "small_done" =>
                /\ th[t].visited = SmallAlone(ParRefs, th[t].begin)
                /\ th[t].ret = SmallCount(th[t].begin + Len(th[t].visited) + 1, th[t].begin)

\* Two threads finished an enumeration of the same chain, one through a Cell
\* and one through a SmallCell, with the same visits.
C8_Witness ==
    /\ th[1].pc = "cell_done" /\ th[1].begin = 0
    /\ th[2].pc = "small_done" /\ th[2].begin = 0
    /\ th[1].visited = <<0, 1>>
    /\ th[2].visited = <<0, 1>>

====
